---- MODULE Spec2Model ----
(***************************************************************************)
(* A model of generate.py: one run of the portfolio report.  The run is    *)
(* the sequential pipeline of main(): FX scalar, history pre-fetch, the    *)
(* per-holding loop (name, price fallback chain, window returns), the      *)
(* derived columns, the two portfolio aggregates and the rendering.        *)
(*                                                                         *)
(* Numbers are exact rationals <<n, d>> (d > 0, lowest terms); an absent   *)
(* number (Python None, pandas NA/NaN) is the empty tuple.  Timestamps are *)
(* counted in half days: the daily bar of date d carries timestamp 2*d     *)
(* (midnight), datetime.now() is any half-day count.                       *)
(***************************************************************************)
EXTENDS Integers, Sequences, FiniteSets, TLC

(* ------------------------------ bounds --------------------------------- *)
\* longest holdings list read from the sheet
MaxRows == 2
\* how many midnights may pass during one run
MaxTicks == 1
\* the date (in days) on which the run starts
Today == 400
\* longest series handed to the window computation on its own
MaxPoints == 3

(* --------------------------- exact numbers ----------------------------- *)
None == <<>>

Abs(x) == IF x < 0 THEN -x ELSE x

RECURSIVE Gcd(_, _)
Gcd(a, b) == IF b = 0 THEN a ELSE Gcd(b, a % b)

\* the rational n/d in lowest terms with a positive denominator (d # 0)
Rat(n, d) ==
    LET g == Gcd(Abs(n), Abs(d))
        s == IF d < 0 THEN -1 ELSE 1
    IN  <<(s * n) \div g, (s * d) \div g>>

Num(k) == <<k, 1>>
RAdd(x, y) == Rat(x[1] * y[2] + y[1] * x[2], x[2] * y[2])
RSub(x, y) == Rat(x[1] * y[2] - y[1] * x[2], x[2] * y[2])
RMul(x, y) == Rat(x[1] * y[1], x[2] * y[2])
RDiv(x, y) == Rat(x[1] * y[2], x[2] * y[1])
RPos(x) == x[1] > 0
RZero(x) == x[1] = 0

RECURSIVE RSum(_)
RSum(s) == IF s = <<>> THEN Num(0) ELSE RAdd(Head(s), RSum(Tail(s)))

(* ------------------------------ tickers -------------------------------- *)
\* A ticker is its letters and whether it carries a ".AX"-style suffix:
\* ABC is [stem |-> "ABC", dot |-> FALSE], ABC.AX is [stem |-> "ABC", dot |-> TRUE].
Stems == {"ABC"}
Tickers == [stem : Stems, dot : BOOLEAN]
Markets == {"ASX", "US"}

norm_ticker(t, market) ==
    IF t.dot THEN t
    ELSE IF market = "ASX" THEN [t EXCEPT !.dot = TRUE] ELSE t

(* ------------------------------ holdings ------------------------------- *)
\* A row is a ticker, a market, a quantity (0 after fillna when the cell is
\* not a number) and an average cost per share (None when the cell is empty).
Positions == {[Quantity |-> 10, AvgCost |-> None], [Quantity |-> 10, AvgCost |-> Num(100)],
              [Quantity |-> 0, AvgCost |-> Num(100)]}
Holdings == {[Ticker |-> t, Market |-> m, Quantity |-> p.Quantity, AvgCost |-> p.AvgCost] :
             t \in Tickers, m \in Markets, p \in Positions}

TickerYF(r) == norm_ticker(r.Ticker, r.Market)

\* df["TickerYF"].unique(): the symbols in order of first appearance
RECURSIVE Unique(_, _)
Unique(syms, seen) ==
    IF syms = <<>> THEN <<>>
    ELSE IF Head(syms) \in seen THEN Unique(Tail(syms), seen)
    ELSE <<Head(syms)>> \o Unique(Tail(syms), seen \cup {Head(syms)})

(* ------------------------- provider: price series ---------------------- *)
\* A downloaded frame is a sequence of rows <<date, close>>, ascending by
\* date; a close may be missing (NaN).  An empty frame is <<>>.
Short10 == << <<Today - 11, Num(100)>>, <<Today - 1, Num(110)>>, <<Today, None>> >>
Scenario == << <<Today - 400, Num(100)>>, <<Today - 40, Num(110)>>, <<Today - 1, Num(121)>> >>
SeriesA == << <<Today - 300, Num(90)>>, <<Today - 30, Num(95)>>,
              <<Today - 29, Num(100)>>, <<Today - 1, Num(110)>> >>
SeriesB == << <<Today - 200, Num(250)>>, <<Today - 29, Num(100)>>, <<Today - 1, Num(95)>> >>
Frames == {Short10, Scenario, SeriesA, SeriesB}
\* what yf.download may do: raise, return an empty frame, return a frame
DownloadOutcomes == {[kind |-> "err", frame |-> <<>>], [kind |-> "ok", frame |-> <<>>]}
                    \cup {[kind |-> "ok", frame |-> f] : f \in Frames}

get_daily_hist_400d(o) ==
    IF o.kind = "err" THEN None
    ELSE IF o.frame # <<>> THEN o.frame ELSE None

\* hist[label].dropna()
RECURSIVE DropNa(_)
DropNa(f) ==
    IF f = <<>> THEN <<>>
    ELSE IF Head(f)[2] = None THEN DropNa(Tail(f))
    ELSE <<Head(f)>> \o DropNa(Tail(f))

_get_close_series(hist) ==
    IF hist = None THEN None
    ELSE LET s == DropNa(hist) IN IF s # <<>> THEN s ELSE None

(* --------------------------- window returns ---------------------------- *)
\* s.sort_index(): insertion of each row into the sorted prefix
RECURSIVE InsertByDate(_, _)
InsertByDate(row, s) ==
    IF s = <<>> THEN <<row>>
    ELSE IF row[1] < Head(s)[1] THEN <<row>> \o s
    ELSE <<Head(s)>> \o InsertByDate(row, Tail(s))

RECURSIVE SortIndex(_)
SortIndex(s) == IF s = <<>> THEN <<>> ELSE InsertByDate(Head(s), SortIndex(Tail(s)))

\* the window taken as months * 30.5 days, not cut to whole days
WindowHalfDaysExact(months) == months * 61

\* timedelta(days=int(months * 30.5)), in half days
WindowHalfDays(months) == 2 * ((months * 61) \div 2)

\* a search that lands on the last date at or before ts (the first row when
\* every date is later)
RECURSIVE searchsorted_at_or_before(_, _)
searchsorted_at_or_before(s, ts) ==
    IF Len(s) <= 1 THEN 0
    ELSE IF 2 * s[2][1] <= ts THEN 1 + searchsorted_at_or_before(Tail(s), ts)
    ELSE 0

\* index.searchsorted(ts) (side left, 0-based): how many leading dates are < ts
RECURSIVE searchsorted(_, _)
searchsorted(s, ts) ==
    IF s = <<>> THEN 0
    ELSE IF 2 * Head(s)[1] < ts THEN 1 + searchsorted(Tail(s), ts)
    ELSE 0

\* lines 109-112: the 0-based index of the reference row
RefIdx(s, months, nowv) ==
    LET idx == searchsorted(s, nowv - WindowHalfDays(months))
    IN  IF idx >= Len(s) THEN Len(s) - 1 ELSE idx

\* the return computed without looking at how many days the series spans
window_return_any_span(s0, months, min_days_required, nowv) ==
    IF s0 = None THEN None
    ELSE LET s == SortIndex(s0)
             last == s[Len(s)][2]
             ref == s[RefIdx(s, months, nowv) + 1][2]
         IN  IF last = None \/ ref = None \/ RZero(ref) THEN None
             ELSE RDiv(RSub(last, ref), ref)

_window_return_from_series(s0, months, min_days_required, nowv) ==
    IF s0 = None THEN None
    ELSE LET s == SortIndex(s0)
             last == s[Len(s)][2]
         IN  IF last = None THEN None
             ELSE LET ref == s[RefIdx(s, months, nowv) + 1][2]
                      days_span == s[Len(s)][1] - s[1][1]
                  IN  IF days_span < min_days_required \/ ref = None \/ RZero(ref)
                      THEN None
                      ELSE RDiv(RSub(last, ref), ref)

(* ----------------------------- formatting ------------------------------ *)
\* round(x * 1000) for the rational x, ties to even: the digits of f"{x*100:.1f}"
Tenths(x) ==
    LET n == 1000 * x[1]
        q == n \div x[2]
        r == n % x[2]
    IN  IF 2 * r < x[2] THEN q
        ELSE IF 2 * r > x[2] THEN q + 1
        ELSE IF q % 2 = 0 THEN q ELSE q + 1

Blank == [kind |-> "blank"]
Dash == [kind |-> "dash"]
Pct(x) == [kind |-> "pct", tenths |-> Tenths(x)]

\* a formatter that prints a missing return as a number
to_str_zero(r) == IF r = None THEN Pct(Num(0)) ELSE Pct(r)

\* line 125
to_str(r) == IF r = None THEN Blank ELSE Pct(r)

Windows == <<1, 6, 12>>
MinDays == <<20, 120, 250>>

\* lines 119-126: <<strings, numbers>> for the windows 1, 6, 12
compute_individual_perf_from_hist(hist, nowv) ==
    LET s == _get_close_series(hist)
        r == [w \in 1..3 |-> _window_return_from_series(s, Windows[w], MinDays[w], nowv)]
    IN  <<[w \in 1..3 |-> to_str(r[w])], r>>

(* ------------------------- provider: current price --------------------- *)
\* fast_info.last_price: the lookup raises, the field is missing, or a number
Tier1Outcomes == {[kind |-> "err", val |-> None], [kind |-> "ok", val |-> None],
                  [kind |-> "ok", val |-> Num(0)]}
                 \cup {[kind |-> "ok", val |-> Num(100)]}
\* tk.history(...): raises, returns an empty frame, or a frame with a last close
HistoryOutcomes == {[kind |-> "err", val |-> None], [kind |-> "ok", val |-> None]}
                   \cup {[kind |-> "ok", val |-> Num(100)]}
\* tk.info: raises, or a dict whose three price fields may each be missing
InfoOutcomes == {[kind |-> "err", regularMarketPrice |-> None, currentPrice |-> None,
                  previousClose |-> None]}
                \cup [kind : {"ok"}, regularMarketPrice : {None, Num(100)},
                      currentPrice : {None, Num(110)}, previousClose : {None, Num(100)}]

\* lines 31-36: truthy last_price, else the tier fails
Tier1Result(o) ==
    IF o.kind = "ok" /\ o.val # None /\ ~RZero(o.val) THEN o.val ELSE None
\* lines 38-43 and 45-50: the last close of a non-empty frame
HistoryResult(o) == IF o.kind = "ok" /\ o.val # None THEN o.val ELSE None
\* lines 52-59: the first of the three fields that is not None
Tier4Result(o) ==
    IF o.kind # "ok" THEN None
    ELSE IF o.regularMarketPrice # None THEN o.regularMarketPrice
    ELSE IF o.currentPrice # None THEN o.currentPrice
    ELSE o.previousClose

\* a chain that gives up after the daily history, never reading the snapshot
AfterTierNoInfo(t, v) ==
    IF v # None THEN "priced"
    ELSE IF t = 1 THEN "t2" ELSE IF t = 2 THEN "t3" ELSE "priced"

\* where get_price_native goes after tier t produced v: it returns on a
\* value and falls through to the next tier (or to "return None") otherwise
AfterTier(t, v) ==
    IF v # None THEN "priced"
    ELSE IF t = 1 THEN "t2" ELSE IF t = 2 THEN "t3" ELSE IF t = 3 THEN "t4" ELSE "priced"

(* ------------------------------ provider: FX --------------------------- *)
DefaultRate == Rat(3, 2)
FxOutcomes == {[kind |-> "err", close |-> None], [kind |-> "ok", close |-> None],
               [kind |-> "ok", close |-> Num(0)], [kind |-> "ok", close |-> Rat(1, 2)]}

\* lines 62-70
get_aud_per_usd(o) ==
    IF o.kind = "ok" /\ o.close # None
    THEN IF ~RZero(o.close) THEN RDiv(Num(1), o.close) ELSE DefaultRate
    ELSE DefaultRate

(* ------------------------------ dictionaries --------------------------- *)
Get(m, key) == IF key \in DOMAIN m THEN m[key] ELSE None
Put(m, key, v) == [x \in (DOMAIN m) \cup {key} |-> IF x = key THEN v ELSE m[x]]

(* -------------------------------- state -------------------------------- *)
VARIABLES
    rows,          \* the holdings sheet, as read
    now,           \* datetime.now(), in half days
    ticks,         \* how often the clock advanced
    pc,            \* where main() is
    aud_per_usd,   \* the FX scalar (None before it is resolved)
    fxCalls,       \* how often the FX provider was asked
    hist_cache,    \* symbol -> frame or None
    fetched,       \* the symbols yf.download(period="400d") was called for, in order
    i,             \* the row the per-holding loop is at
    tried,         \* the tiers the running get_price_native call has attempted, in order
    resp,          \* what the provider answered to the call made last
    px,            \* result of the running get_price_native call
    names, native_price, price_aud, perf_str, perf_num,   \* dicts keyed by plain ticker
    own,           \* per row: the price resolved for that row itself, when, and the
                   \* returns and reference rows computed from its own symbol's series
    convs,         \* every currency conversion made: <<amount, market, result>>
    df,            \* the derived columns, one record per row
    shown,         \* the rows of df with a PriceAUD, by market value (row numbers)
    total,         \* total portfolio value
    usable,        \* per window: what agg_with_start_weights kept of each row
    port_r,        \* per window: hypothetical portfolio return
    port_actual,   \* since-inception portfolio return
    console, html  \* the two reports

late == <<df, shown, total, usable, port_r, port_actual, console, html>>

vars == <<rows, now, ticks, pc, aud_per_usd, fxCalls, hist_cache, fetched, i, tried, resp, px,
          names, native_price, price_aud, perf_str, perf_num, own, convs, late>>

NoResp == [kind |-> "unasked"]

RECURSIVE SeqsUpTo(_, _)
SeqsUpTo(S, n) ==
    IF n = 0 THEN {<<>>}
    ELSE LET shorter == SeqsUpTo(S, n - 1)
         IN  shorter \cup {Append(q, x) : q \in {t \in shorter : Len(t) = n - 1}, x \in S}

Init ==
    /\ rows \in SeqsUpTo(Holdings, MaxRows)
    /\ now = 2 * Today + 1
    /\ ticks = 0
    /\ pc = "fx"
    /\ aud_per_usd = None
    /\ fxCalls = 0
    /\ hist_cache = <<>>
    /\ fetched = <<>>
    /\ i = 1
    /\ tried = <<>>
    /\ resp = NoResp
    /\ px = None
    /\ names = <<>> /\ native_price = <<>> /\ price_aud = <<>>
    /\ perf_str = <<>> /\ perf_num = <<>>
    /\ own = <<>>
    /\ convs = {}
    /\ df = <<>> /\ shown = <<>> /\ total = None
    /\ usable = <<>> /\ port_r = <<>> /\ port_actual = None
    /\ console = <<>> /\ html = <<>>

\* a midnight passes while the run waits for the provider: the same time of
\* day, one date later
Tick ==
    /\ pc # "done"
    /\ ticks < MaxTicks
    /\ now' = now + 2
    /\ ticks' = ticks + 1
    /\ UNCHANGED <<rows, pc, aud_per_usd, fxCalls, hist_cache, fetched, i, tried, resp, px,
                   names, native_price, price_aud, perf_str, perf_num, own, convs, late>>

\* df["TickerYF"] (line 140)
Symbols == [j \in 1..Len(rows) |-> TickerYF(rows[j])]
\* a pre-fetch loop over the column itself, one visit per row
SymbolsOfAllRows == Symbols

\* line 151: the symbols the pre-fetch loop visits
PrefetchList == Unique(Symbols, {})

\* line 64: the FX provider answers
AskFx ==
    /\ pc = "fx"
    /\ \E o \in FxOutcomes : resp' = o
    /\ fxCalls' = fxCalls + 1
    /\ pc' = "fx_answered"
    /\ UNCHANGED <<rows, now, ticks, aud_per_usd, hist_cache, fetched, i, tried, px,
                   names, native_price, price_aud, perf_str, perf_num, own, convs, late>>

\* lines 65-70, 142: the scalar is set from the answer
SetFx ==
    /\ pc = "fx_answered"
    /\ aud_per_usd' = get_aud_per_usd(resp)
    /\ resp' = NoResp
    /\ pc' = IF PrefetchList = <<>> THEN "report" ELSE "prefetch"
    /\ UNCHANGED <<rows, now, ticks, fxCalls, hist_cache, fetched, i, tried, px,
                   names, native_price, price_aud, perf_str, perf_num, own, convs, late>>

\* lines 151-152: one iteration of the pre-fetch loop
Prefetch ==
    /\ pc = "prefetch"
    /\ LET t_yf == PrefetchList[Len(fetched) + 1]
       IN  \E o \in DownloadOutcomes :
            /\ resp' = o
            /\ hist_cache' = Put(hist_cache, t_yf, get_daily_hist_400d(o))
            /\ fetched' = Append(fetched, t_yf)
    /\ pc' = IF Len(fetched) + 1 = Len(PrefetchList) THEN "name" ELSE "prefetch"
    /\ UNCHANGED <<rows, now, ticks, aud_per_usd, fxCalls, i, tried, px,
                   names, native_price, price_aud, perf_str, perf_num, own, convs, late>>

\* lines 155, 157: the name is whatever the provider shows for the symbol
\* (longName, shortName, or the symbol itself), a function of the symbol
StartHolding ==
    /\ pc = "name"
    /\ names' = Put(names, rows[i].Ticker, [of |-> TickerYF(rows[i])])
    /\ tried' = <<>>
    /\ resp' = NoResp
    /\ px' = None
    /\ pc' = "t1"
    /\ UNCHANGED <<rows, now, ticks, aud_per_usd, fxCalls, hist_cache, fetched, i,
                   native_price, price_aud, perf_str, perf_num, own, convs, late>>

TierFrame == <<rows, now, ticks, aud_per_usd, fxCalls, hist_cache, fetched, i,
               names, native_price, price_aud, perf_str, perf_num, own, convs, late>>

\* lines 31-36
Tier1 ==
    /\ pc = "t1"
    /\ \E o \in Tier1Outcomes :
        /\ tried' = Append(tried, 1)
        /\ resp' = o
        /\ px' = Tier1Result(o)
        /\ pc' = AfterTier(1, Tier1Result(o))
    /\ UNCHANGED TierFrame

\* lines 38-43
Tier2 ==
    /\ pc = "t2"
    /\ \E o \in HistoryOutcomes :
        /\ tried' = Append(tried, 2)
        /\ resp' = o
        /\ px' = HistoryResult(o)
        /\ pc' = AfterTier(2, HistoryResult(o))
    /\ UNCHANGED TierFrame

\* lines 45-50
Tier3 ==
    /\ pc = "t3"
    /\ \E o \in HistoryOutcomes :
        /\ tried' = Append(tried, 3)
        /\ resp' = o
        /\ px' = HistoryResult(o)
        /\ pc' = AfterTier(3, HistoryResult(o))
    /\ UNCHANGED TierFrame

\* lines 52-60
Tier4 ==
    /\ pc = "t4"
    /\ \E o \in InfoOutcomes :
        /\ tried' = Append(tried, 4)
        /\ resp' = o
        /\ px' = Tier4Result(o)
        /\ pc' = AfterTier(4, Tier4Result(o))
    /\ UNCHANGED TierFrame

NoRets == <<None, None, None>>

\* line 161
ToAUD(x, mkt, rate) == IF mkt = "US" THEN RMul(x, rate) ELSE x

\* the row of the cached series that _window_return_from_series reads as ref
OwnRef(hist, months, nowv) ==
    LET s == _get_close_series(hist)
    IN  IF s = None THEN None ELSE SortIndex(s)[RefIdx(SortIndex(s), months, nowv) + 1]

\* lines 156-166: the rest of the loop body, once get_price_native returned
FinishHolding ==
    /\ pc = "priced"
    /\ LET r == rows[i]
           t_plain == r.Ticker
           hist == Get(hist_cache, TickerYF(r))
           perf == compute_individual_perf_from_hist(hist, now)
       IN  IF px = None
           THEN /\ own' = Append(own, [px |-> None, at |-> now, ret |-> NoRets, ref |-> NoRets])
                /\ UNCHANGED <<native_price, price_aud, perf_str, perf_num, convs>>
           ELSE /\ native_price' = Put(native_price, t_plain, px)
                /\ price_aud' = Put(price_aud, t_plain, ToAUD(px, r.Market, aud_per_usd))
                /\ convs' = convs \cup {<<px, r.Market, ToAUD(px, r.Market, aud_per_usd)>>}
                /\ perf_str' = Put(perf_str, t_plain, perf[1])
                /\ perf_num' = Put(perf_num, t_plain, perf[2])
                /\ own' = Append(own, [px |-> px, at |-> now, ret |-> perf[2],
                                       ref |-> [w \in 1..3 |-> OwnRef(hist, Windows[w], now)]])
    /\ i' = i + 1
    /\ pc' = IF i = Len(rows) THEN "report" ELSE "name"
    /\ tried' = <<>>
    /\ resp' = NoResp
    /\ px' = None
    /\ UNCHANGED <<rows, now, ticks, aud_per_usd, fxCalls, hist_cache, fetched, names, late>>

(* --------------------------- derived columns --------------------------- *)
\* lines 180-185
cost_to_aud(row, rate) ==
    IF row.AvgCost = None THEN None
    ELSE IF row.Market = "US" THEN RMul(row.AvgCost, rate) ELSE row.AvgCost

\* line 188; a zero cost gives inf or NaN, kept as a value of its own
ActualPerfNum(price, cost) ==
    IF price = None \/ cost = None THEN None
    ELSE IF RZero(cost) THEN <<1, 0>>
    ELSE RDiv(RSub(price, cost), cost)

\* line 189 (an infinite value prints as "inf%", not as a number)
ActualPerfStr(r) ==
    IF r = None THEN Blank ELSE IF r = <<1, 0>> THEN [kind |-> "inf"] ELSE Pct(r)

\* lines 168-193: the columns of row j
DfRow(j) ==
    LET r == rows[j]
        t == r.Ticker
        PriceAUD == Get(price_aud, t)
        AvgCostAUD == cost_to_aud(r, aud_per_usd)
    IN  [Name |-> Get(names, t),
         PriceNative |-> Get(native_price, t),
         PriceAUD |-> PriceAUD,
         MarketValueAUD |-> IF PriceAUD = None THEN None
                            ELSE RMul(Num(r.Quantity), PriceAUD),
         Perf |-> Get(perf_str, t),
         AvgCostAUD |-> AvgCostAUD,
         ActualPerfNum |-> ActualPerfNum(PriceAUD, AvgCostAUD),
         ActualPerf |-> ActualPerfStr(ActualPerfNum(PriceAUD, AvgCostAUD))]

RLess(x, y) == x[1] * y[2] < y[1] * x[2]

\* shown.sort_values("MarketValueAUD", ascending=False): rows of equal value
\* keep the sheet's order
RECURSIVE InsertByMV(_, _, _)
InsertByMV(d, j, s) ==
    IF s = <<>> THEN <<j>>
    ELSE IF RLess(d[Head(s)].MarketValueAUD, d[j].MarketValueAUD) THEN <<j>> \o s
    ELSE <<Head(s)>> \o InsertByMV(d, j, Tail(s))

RECURSIVE SortByMV(_, _)
SortByMV(d, js) ==
    IF js = <<>> THEN <<>>
    ELSE InsertByMV(d, js[Len(js)], SortByMV(d, SubSeq(js, 1, Len(js) - 1)))

\* line 195: df.dropna(subset=["PriceAUD"])
RECURSIVE Priced(_, _)
Priced(d, j) ==
    IF j > Len(d) THEN <<>>
    ELSE IF d[j].PriceAUD = None THEN Priced(d, j + 1)
    ELSE <<j>> \o Priced(d, j + 1)

\* lines 195-196
Shown(d) == SortByMV(d, Priced(d, 1))

(* ------------------------- portfolio aggregates ------------------------ *)
\* lines 223-225: the 0-based index of the start-of-window row
StartIdx(s, months, nowv) ==
    LET idx == searchsorted(s, nowv - WindowHalfDays(months))
    IN  IF idx >= Len(s) THEN Len(s) - 1 ELSE idx

\* a start price converted with the fallback rate, not the resolved one
StartToAUDDefault(p_start, mkt, rate) ==
    IF mkt = "US" THEN RMul(p_start, DefaultRate) ELSE p_start

\* line 233
StartToAUD(p_start, mkt, rate) == IF mkt = "US" THEN RMul(p_start, rate) ELSE p_start

\* line 211: ret_dict.get(ticker) for window number w
RetOf(ticker, w) == IF ticker \in DOMAIN perf_num THEN perf_num[ticker][w] ELSE None

\* lines 210-239: what one row of shown adds to usable (nothing when skipped)
AggRow(j, w, nowv) ==
    LET r == rows[j]
        ret == RetOf(r.Ticker, w)
        s == _get_close_series(Get(hist_cache, TickerYF(r)))
    IN  IF ret = None \/ s = None THEN <<>>
        ELSE LET start == s[StartIdx(s, Windows[w], nowv) + 1]
                 p_start == start[2]
             IN  IF p_start = None \/ RZero(p_start) THEN <<>>
                 ELSE LET mv_start == RMul(Num(r.Quantity),
                                           StartToAUD(p_start, r.Market, aud_per_usd))
                      IN  IF ~RPos(mv_start) THEN <<>>
                          ELSE <<[row |-> j, mv_start |-> mv_start, ret |-> ret,
                                  start |-> start, p_start |-> p_start]>>

\* lines 209-239: the loop over shown
RECURSIVE Usable(_, _, _)
Usable(js, w, nowv) ==
    IF js = <<>> THEN <<>> ELSE AggRow(Head(js), w, nowv) \o Usable(Tail(js), w, nowv)

\* the plain mean of the kept returns, the weights forgotten
UnweightedReturn(u) ==
    IF u = <<>> THEN None
    ELSE RDiv(RSum([k \in 1..Len(u) |-> u[k].ret]), Num(Len(u)))

\* lines 241-243
WeightedReturn(u) ==
    LET total_start_mv == RSum([k \in 1..Len(u) |-> u[k].mv_start])
    IN  IF u = <<>> \/ ~RPos(total_start_mv) THEN None
        ELSE RDiv(RSum([k \in 1..Len(u) |-> RMul(u[k].mv_start, u[k].ret)]), total_start_mv)

\* line 251: shown.dropna(subset=["AvgCostAUD"])
RECURSIVE HaveCost(_, _)
HaveCost(d, js) ==
    IF js = <<>> THEN <<>>
    ELSE IF d[Head(js)].AvgCostAUD = None THEN HaveCost(d, Tail(js))
    ELSE <<Head(js)>> \o HaveCost(d, Tail(js))

\* lines 250-260
PortActual(d, sh) ==
    LET have_cost == HaveCost(d, sh)
        total_cost_aud == RSum([k \in 1..Len(have_cost) |->
                                  RMul(d[have_cost[k]].AvgCostAUD, Num(rows[have_cost[k]].Quantity))])
        total_mv_with_cost == RSum([k \in 1..Len(have_cost) |-> d[have_cost[k]].MarketValueAUD])
    IN  IF sh = <<>> \/ have_cost = <<>> THEN None
        ELSE IF RPos(total_cost_aud)
             THEN RDiv(RSub(total_mv_with_cost, total_cost_aud), total_cost_aud)
             ELSE None

(* ------------------------------ rendering ------------------------------ *)
\* lines 262-263
fmt_badge_val(r) == IF r = None THEN Dash ELSE Pct(r)

\* x or "-" (lines 274-275, 306-309): the empty string is falsy
OrDash(x) == IF x = Blank THEN Dash ELSE x

\* lines 285-292: the chip text and its colour class ("inf" parses as a
\* positive float)
perf_span(x) ==
    IF x = Blank \/ x = Dash THEN [text |-> Dash, cls |-> "neu"]
    ELSE IF x.kind # "pct" THEN [text |-> x, cls |-> "pos"]
    ELSE [text |-> x, cls |-> IF x.tenths > 0 THEN "pos" ELSE IF x.tenths < 0 THEN "neg" ELSE "neu"]

\* lines 340-343
badge(val) ==
    IF val = None THEN [text |-> Dash, cls |-> "neu"]
    ELSE [text |-> Pct(val), cls |-> IF val[1] > 0 THEN "pos" ELSE IF val[1] < 0 THEN "neg" ELSE "neu"]

\* lines 272-280: one console line
ConsoleLine(d, j) ==
    [row |-> j, Name |-> d[j].Name, Ticker |-> rows[j].Ticker,
     perf |-> [w \in 1..3 |-> OrDash(d[j].Perf[w])],
     actual |-> OrDash(d[j].ActualPerf)]

\* lines 296-338: one card
Card(d, j) ==
    [row |-> j, Name |-> d[j].Name, Ticker |-> rows[j].Ticker,
     perf |-> [w \in 1..3 |-> perf_span(OrDash(d[j].Perf[w]))],
     actual |-> perf_span(OrDash(d[j].ActualPerf))]

\* lines 266-282
Console(d, sh, tot, pr, pa) ==
    IF sh # <<>>
    THEN [priced |-> TRUE, total |-> tot, actual |-> fmt_badge_val(pa),
          hypo |-> [w \in 1..3 |-> fmt_badge_val(pr[w])],
          lines |-> [k \in 1..Len(sh) |-> ConsoleLine(d, sh[k])]]
    ELSE [priced |-> FALSE, total |-> None, actual |-> Blank,
          hypo |-> <<Blank, Blank, Blank>>, lines |-> <<>>]

\* lines 294-545
Html(d, sh, tot, pr, pa) ==
    [total |-> tot, actual |-> badge(pa), hypo |-> [w \in 1..3 |-> badge(pr[w])],
     cards |-> [k \in 1..Len(sh) |-> Card(d, sh[k])]]

\* lines 168-547: the straight-line rest of main() after the per-holding loop:
\* derived columns, shown and total, the aggregates (which read the clock
\* again), the two reports
Report ==
    /\ pc = "report"
    /\ \E d \in {[j \in 1..Len(rows) |-> DfRow(j)]} :
       \E sh \in {Shown(d)} :
       \E u \in {[w \in 1..3 |-> Usable(sh, w, now)]} :
       LET tot == IF sh = <<>> THEN Num(0)
                  ELSE RSum([k \in 1..Len(sh) |-> d[sh[k]].MarketValueAUD])
           pr == [w \in 1..3 |-> IF sh = <<>> THEN None ELSE WeightedReturn(u[w])]
           pa == PortActual(d, sh)
       IN  /\ df' = d
           /\ shown' = sh
           /\ total' = tot
           /\ usable' = u
           /\ port_r' = pr
           /\ port_actual' = pa
           /\ console' = Console(d, sh, tot, pr, pa)
           /\ html' = Html(d, sh, tot, pr, pa)
           /\ convs' = convs
                \cup {<<rows[j].AvgCost, rows[j].Market, cost_to_aud(rows[j], aud_per_usd)>> :
                        j \in {x \in 1..Len(rows) : rows[x].AvgCost # None}}
                \cup UNION {
                  {<<u[w][k].p_start, rows[u[w][k].row].Market,
                     StartToAUD(u[w][k].p_start, rows[u[w][k].row].Market, aud_per_usd)>> :
                   k \in 1..Len(u[w])} : w \in 1..3}
    /\ pc' = "done"
    /\ UNCHANGED <<rows, now, ticks, aud_per_usd, fxCalls, hist_cache, fetched, i, tried, resp,
                   px, names, native_price, price_aud, perf_str, perf_num, own>>

Next ==
    \/ Tick
    \/ AskFx
    \/ SetFx
    \/ Prefetch
    \/ StartHolding
    \/ Tier1
    \/ Tier2
    \/ Tier3
    \/ Tier4
    \/ FinishHolding
    \/ Report

Spec == Init /\ [][Next]_vars

(* -------------- the window computation on a series of its own ---------- *)
\* compute_individual_perf_from_hist applied once to one frame at one time
\* of one day: the frames are the ascending series of up to MaxPoints daily
\* bars dated around the three window boundaries, the clock is at midnight or
\* noon of Today or of the day after.
WindowDates == {Today - k : k \in {400, 367, 366, 365, 184, 183, 182, 31, 30, 29, 1, 0}}
CloseOn(d) == Num(50 + (Today - d))

RECURSIVE Ascending(_)
Ascending(D) ==
    IF D = {} THEN <<>>
    ELSE LET first == CHOOSE d \in D : \A e \in D : d <= e
         IN  <<<<first, CloseOn(first)>>>> \o Ascending(D \ {first})

WindowSeries ==
    {Ascending(D) : D \in {S \in SUBSET WindowDates : Cardinality(S) \in 1..MaxPoints}}
WindowNows == (2 * Today)..(2 * Today + 3)
WindowSymbol == [stem |-> "ABC", dot |-> TRUE]

InitWindow ==
    /\ rows = <<>>
    /\ now \in WindowNows
    /\ ticks = 0
    /\ pc = "window"
    /\ aud_per_usd = None
    /\ fxCalls = 0
    /\ hist_cache \in {Put(<<>>, WindowSymbol, f) : f \in WindowSeries}
    /\ fetched = <<WindowSymbol>>
    /\ i = 1
    /\ tried = <<>>
    /\ resp = NoResp
    /\ px = None
    /\ names = <<>> /\ native_price = <<>> /\ price_aud = <<>>
    /\ perf_str = <<>> /\ perf_num = <<>>
    /\ own = <<>>
    /\ convs = {}
    /\ df = <<>> /\ shown = <<>> /\ total = None
    /\ usable = <<>> /\ port_r = <<>> /\ port_actual = None
    /\ console = <<>> /\ html = <<>>

\* lines 119-126: the call, its three returns and the rows it read as ref
WindowCall ==
    /\ pc = "window"
    /\ LET hist == Get(hist_cache, WindowSymbol)
           perf == compute_individual_perf_from_hist(hist, now)
       IN  /\ perf_str' = Put(perf_str, WindowSymbol, perf[1])
           /\ perf_num' = Put(perf_num, WindowSymbol, perf[2])
           /\ own' = Append(own, [px |-> None, at |-> now, ret |-> perf[2],
                                  ref |-> [w \in 1..3 |-> OwnRef(hist, Windows[w], now)]])
    /\ pc' = "done"
    /\ UNCHANGED <<rows, now, ticks, aud_per_usd, fxCalls, hist_cache, fetched, i, tried, resp,
                   px, names, native_price, price_aud, convs, late>>

NextWindow == WindowCall

SpecWindow == InitWindow /\ [][NextWindow]_vars

(* ======================= the price fallback chain ====================== *)
\* What "tier t succeeds with value v" means for the provider's answer o,
\* stated from the provider's side.
TierValue(t, o) ==
    IF o.kind # "ok" THEN None
    ELSE IF t = 1 THEN (IF o.val = None \/ o.val = Num(0) THEN None ELSE o.val)
    ELSE IF t \in {2, 3} THEN o.val
    ELSE IF o.regularMarketPrice # None THEN o.regularMarketPrice
    ELSE IF o.currentPrice # None THEN o.currentPrice
    ELSE o.previousClose

\* C1: get_price_native attempts its tiers in the order 1, 2, 3, 4, each at
\* most once; it moves to a tier only when the tier before it failed (no
\* data, or a provider error, which is absorbed); it returns the value of the
\* tier that succeeded (tier 4: regularMarketPrice, then currentPrice, then
\* previousClose) and returns None only after all four tiers failed.
C1_FallbackChain ==
    /\ \A k \in 1..Len(tried) : tried[k] = k
    /\ pc = "t1" => tried = <<>>
    /\ pc = "t2" => tried = <<1>> /\ TierValue(1, resp) = None
    /\ pc = "t3" => tried = <<1, 2>> /\ TierValue(2, resp) = None
    /\ pc = "t4" => tried = <<1, 2, 3>> /\ TierValue(3, resp) = None
    /\ pc = "priced" =>
         /\ tried # <<>>
         /\ px = TierValue(Len(tried), resp)
         /\ px = None => tried = <<1, 2, 3, 4>>

\* all three earlier tiers failed and tier 4 answered with currentPrice
C1_Witness ==
    /\ pc = "priced"
    /\ tried = <<1, 2, 3, 4>>
    /\ resp.kind = "ok" /\ resp.regularMarketPrice = None /\ resp.previousClose # None
    /\ px = Num(110)

(* ========================= the history cache =========================== *)
NoDuplicates(q) == \A a, b \in 1..Len(q) : a # b => q[a] # q[b]
Range(q) == {q[k] : k \in 1..Len(q)}

\* what holds of the cache in every state of a run
CacheState ==
    /\ NoDuplicates(fetched)
    /\ DOMAIN hist_cache = Range(fetched)
    /\ Range(fetched) \subseteq Range(Symbols)
    /\ pc \notin {"fx", "fx_answered", "prefetch"} => Range(fetched) = Range(Symbols)
    /\ (pc \in {"prefetch", "name"} /\ resp # NoResp /\ (resp.kind = "err" \/ resp.frame = <<>>))
         => hist_cache[fetched[Len(fetched)]] = None

\* C2: the history provider is called at most once per unique canonical
\* symbol, whatever rows share it; a failed or empty fetch leaves an explicit
\* no-data entry (None) in the cache; an entry, once written, is never written
\* again (so nothing is retried), and the cache changes only during the
\* pre-fetch phase.
C2_FetchOnce ==
    /\ [] CacheState
    /\ [][\A sym \in DOMAIN hist_cache :
             sym \in DOMAIN hist_cache' /\ hist_cache'[sym] = hist_cache[sym]]_vars
    /\ [][Len(fetched') \in {Len(fetched), Len(fetched) + 1}]_vars
    /\ [][pc # "prefetch" => hist_cache' = hist_cache /\ fetched' = fetched]_vars

\* two rows with different tickers share one symbol whose only fetch failed,
\* and the per-holding loop has started
C2_Witness ==
    /\ Len(rows) = 2
    /\ rows[1].Ticker # rows[2].Ticker
    /\ TickerYF(rows[1]) = TickerYF(rows[2])
    /\ pc = "t1" /\ i = 2
    /\ Len(fetched) = 1
    /\ hist_cache[fetched[1]] = None

(* ====================== per-holding window returns ===================== *)
\* the close series the loop read for row j: the cached frame of the row's
\* symbol without its missing closes (<<>> when there is none)
SeriesOf(j) ==
    LET hist == Get(hist_cache, TickerYF(rows[j]))
    IN  IF hist = None THEN <<>> ELSE SelectSeq(hist, LAMBDA row : row[2] # None)

\* last date minus first date, in days
SpanDays(s) ==
    LET dates == {s[k][1] : k \in 1..Len(s)}
    IN  (CHOOSE hi \in dates : \A d \in dates : d <= hi)
        - (CHOOSE lo \in dates : \A d \in dates : lo <= d)

\* the rows whose returns the loop has computed (those it found a price for)
Computed == {j \in 1..Len(own) : own[j].px # None}

\* C3: a window return computed from a series whose span in days is below
\* the window's minimum (1 month: 20, 6 months: 120, 12 months: 250) is
\* absent; a series spanning 10 days gives absent for all three windows.
C3_ShortSpanAbsent ==
    \A j \in Computed :
        LET s == SeriesOf(j)
        IN  s # <<>> =>
              /\ \A w \in 1..3 : SpanDays(s) < MinDays[w] => own[j].ret[w] = None
              /\ SpanDays(s) = 10 => own[j].ret = <<None, None, None>>

\* a priced row whose series spans 10 days, and one whose series is long
\* enough for 1 and 6 months but not for 12
C3_Witness ==
    /\ pc = "report"
    /\ Len(own) = 2
    /\ Computed = {1, 2}
    /\ SeriesOf(1) # <<>> /\ SpanDays(SeriesOf(1)) = 10
    /\ SeriesOf(2) # <<>> /\ SpanDays(SeriesOf(2)) = 199
    /\ own[2].ret[1] # None /\ own[2].ret[3] = None

\* the rows whose returns were computed on the date Today from the frame f
ComputedToday(f) ==
    {j \in Computed : own[j].at \div 2 = Today /\ Get(hist_cache, TickerYF(rows[j])) = f}

\* C10 as stated: for the series (D-400, 100), (D-40, 110), (D-1, 121), D the
\* current date, the 1-month return with minimum span 20 is (121 - 110) / 110,
\* that is 10.0%.
C10_TenPercent ==
    \A j \in ComputedToday(Scenario) :
        own[j].ret[1] = Rat(121 - 110, 110) /\ Pct(own[j].ret[1]).tenths = 100

\* C10 as amended: for that series the 1-month return is (121 - 121) / 121,
\* that is 0.0%: the first point dated at or after now - 30 days is
\* (D-1, 121), which is also the last point.
C10_ZeroPercent ==
    \A j \in ComputedToday(Scenario) :
        /\ own[j].ret[1] = Rat(121 - 121, 121)
        /\ own[j].ref[1] = <<Today - 1, Num(121)>>
        /\ Pct(own[j].ret[1]).tenths = 0

C10_Witness ==
    /\ pc = "report"
    /\ ComputedToday(Scenario) # {}

(* ================== the hypothetical portfolio return ================== *)
\* quantity x convert(start price, market) for the row and start row kept in c
StartValue(c) ==
    LET r == rows[c.row]
    IN  RMul(Num(r.Quantity),
             IF r.Market = "US" THEN RMul(c.start[2], aud_per_usd) ELSE c.start[2])

\* the listed rows that contribute to window w: a return is recorded for the
\* row's ticker, the row's symbol has a series, and the row is among those kept
ShownRows == Range(shown)
Contributing(w) == {usable[w][k].row : k \in 1..Len(usable[w])}

RECURSIVE SumOver(_, _)
SumOver(S, f) ==
    IF S = {} THEN Num(0)
    ELSE LET x == CHOOSE y \in S : TRUE IN RAdd(f[x], SumOver(S \ {x}, f))

PricedRows == {j \in 1..Len(rows) : own[j].px # None}
WithCost == {j \in PricedRows : rows[j].AvgCost # None}

\* current market value and cost-basis value of row j, from the row's own
\* price, market, quantity and average cost
OwnValue(j) ==
    RMul(Num(rows[j].Quantity),
         IF rows[j].Market = "US" THEN RMul(own[j].px, aud_per_usd) ELSE own[j].px)
CostValue(j) ==
    RMul(Num(rows[j].Quantity),
         IF rows[j].Market = "US" THEN RMul(rows[j].AvgCost, aud_per_usd)
         ELSE rows[j].AvgCost)

\* C5: the since-inception return is (sum of market values - sum of cost
\* values) / sum of cost values over the priced holdings that have a cost
\* basis, absent when there is none or their cost is not positive; holdings
\* without AvgCost do not enter it (so adding one changes nothing), yet a
\* priced one of them still contributes to the hypothetical aggregates.
C5_ActualReturn ==
    pc = "done" =>
      LET mv == SumOver(WithCost, [j \in WithCost |-> OwnValue(j)])
          cost == SumOver(WithCost, [j \in WithCost |-> CostValue(j)])
      IN  /\ port_actual = IF WithCost = {} \/ ~RPos(cost) THEN None
                            ELSE RDiv(RSub(mv, cost), cost)
          /\ \A j \in PricedRows \ WithCost : \A w \in 1..3 :
                (own[j].ret[w] # None /\ rows[j].Quantity > 0) => j \in Contributing(w)

(* ===================== holdings without a price ======================== *)
\* C6: a holding whose price could not be resolved is left out of the total
\* value and of both portfolio aggregates, is still listed by name in the
\* console and the HTML report, and the run reaches its end with every
\* holding processed.
C6_UnpricedListed ==
    pc = "done" =>
      /\ Len(own) = Len(rows)
      /\ total = SumOver(PricedRows, [j \in PricedRows |-> OwnValue(j)])
      /\ \A j \in 1..Len(rows) \ PricedRows :
            /\ \A w \in 1..3 : j \notin Contributing(w)
            /\ j \notin Range(HaveCost(df, shown))
            /\ \E k \in 1..Len(console.lines) :
                  console.lines[k].row = j /\ console.lines[k].Name = Get(names, rows[j].Ticker)
            /\ \E k \in 1..Len(html.cards) :
                  html.cards[k].row = j /\ html.cards[k].Name = Get(names, rows[j].Ticker)

(* ========================= the window boundary ========================= *)
\* C7: for every holding that contributes to a window's aggregate, the
\* series row whose close is the start-of-window price of its weight is the
\* series row whose close was the reference price of that holding's own
\* window return.
C7_SameBoundary ==
    pc = "done" =>
      \A w \in 1..3 : \A k \in 1..Len(usable[w]) :
          usable[w][k].row \in PricedRows
            => usable[w][k].start = own[usable[w][k].row].ref[w]

(* ====================== absent values in the reports =================== *)
\* the text x shows the value v without inventing a zero: an absent v shows
\* as blank or "-", and a shown 0.0% has a value behind it
Faithful(v, x) ==
    /\ v = None => x \in {Blank, Dash}
    /\ x = [kind |-> "pct", tenths |-> 0] => v # None

FxState ==
    /\ fxCalls <= 1
    /\ aud_per_usd # None => fxCalls = 1
    /\ convs # {} => aud_per_usd # None
    /\ pc = "done" => fxCalls = 1 /\ aud_per_usd # None
    /\ \A c \in convs :
          /\ c[2] = "ASX" => c[3] = c[1]
          /\ c[2] = "US" => c[3] = Rat(c[1][1] * aud_per_usd[1], c[1][2] * aud_per_usd[2])

\* C9: the FX provider is asked once per run and the scalar is set once,
\* before any conversion; it is 1.5 when the provider fails or has no data;
\* every conversion (price, start price, cost) leaves a domestic amount
\* unchanged and multiplies a foreign amount by that one scalar.
C9_OneScalar ==
    /\ [] FxState
    /\ [][aud_per_usd # None => aud_per_usd' = aud_per_usd]_vars
    /\ [][(pc = "fx_answered" /\ pc' # pc /\ (resp.kind = "err" \/ resp.close = None))
            => aud_per_usd' = Rat(15, 10)]_vars

\* the provider failed, and a foreign holding's price, cost and start price
\* were converted; so was a domestic holding's price
C9_Witness ==
    /\ pc = "done"
    /\ aud_per_usd = Rat(15, 10)
    /\ Len(rows) = 2
    /\ \E a, b \in 1..2 :
          /\ rows[a].Market = "US" /\ rows[a].AvgCost # None /\ a \in Contributing(1)
          /\ <<own[a].px, "US", RMul(own[a].px, Rat(15, 10))>> \in convs
          /\ rows[b].Market = "ASX" /\ own[b].px # None
          /\ <<own[b].px, "ASX", own[b].px>> \in convs

(* ========================= the reference point ========================= *)
\* the whole days the code subtracts from now for 1, 6 and 12 months
WholeDays == <<30, 183, 366>>

\* the earliest row of s dated at or after target (a time in half days), or
\* the last row of s when every row is earlier
FirstAtOrAfter(s, target) ==
    LET after == {k \in 1..Len(s) : 2 * s[k][1] >= target}
    IN  IF after = {} THEN s[Len(s)]
        ELSE s[CHOOSE k \in after : \A m \in after : k <= m]

\* the series a window call read
CallSeries == hist_cache[WindowSymbol]

\* C11 as stated: the reference point is the earliest point dated at or
\* after now - months x 30.5 days, or the last point when there is none; it
\* is always a point of the series.
C11_ExactHalfDays ==
    \A j \in 1..Len(own) : \A w \in 1..3 :
        /\ own[j].ref[w] \in Range(CallSeries)
        /\ own[j].ref[w] = FirstAtOrAfter(CallSeries, own[j].at - Windows[w] * 61)

\* C11 as amended: the reference point is the earliest point dated at or
\* after now - int(months x 30.5) days, that is now - 30, 183 or 366 days,
\* or the last point when there is none; it is always a point of the series,
\* and a return that is present is (last - reference) / reference.
C11_WholeDays ==
    \A j \in 1..Len(own) : \A w \in 1..3 :
        LET ref == own[j].ref[w]
            last == CallSeries[Len(CallSeries)]
        IN  /\ ref \in Range(CallSeries)
            /\ ref = FirstAtOrAfter(CallSeries, own[j].at - 2 * WholeDays[w])
            /\ own[j].ret[w] # None
                 => RMul(own[j].ret[w], ref[2]) = RSub(last[2], ref[2])

\* a call at noon of D whose 1-month target falls between the bars of D-30
\* and D-29: the bar of D-29, the last one, is the reference
C11_Witness ==
    /\ pc = "done"
    /\ Len(own) = 1
    /\ own[1].at = 2 * Today + 1
    /\ CallSeries = Ascending({Today - 400, Today - 30, Today - 29})
    /\ own[1].ref[1] = <<Today - 29, CloseOn(Today - 29)>>
    /\ own[1].ret[1] = Num(0)

(* ====================== rows that share a ticker ======================= *)
\* C12: whatever rows share a ticker, every row listed in the report shows
\* the native price resolved for its own symbol, that price converted with
\* its own market, and the window returns computed from its own symbol's
\* series; a row whose own price resolution failed is given no price and no
\* returns, and so is not among the priced rows.
C12_OwnValues ==
    pc = "done" =>
      /\ \A k \in 1..Len(shown) :
            LET j == shown[k] IN
            /\ own[j].px # None
            /\ df[j].PriceNative = own[j].px
            /\ df[j].PriceAUD = IF rows[j].Market = "US" THEN RMul(own[j].px, aud_per_usd)
                                 ELSE own[j].px
            /\ \A w \in 1..3 :
                  /\ RetOf(rows[j].Ticker, w) = own[j].ret[w]
                  /\ df[j].Perf[w] = IF own[j].ret[w] = None THEN Blank ELSE Pct(own[j].ret[w])
                  /\ console.lines[k].row = j
                  /\ console.lines[k].perf[w] = OrDash(df[j].Perf[w])
      /\ \A j \in 1..Len(rows) \ PricedRows :
            /\ df[j].PriceNative = None
            /\ df[j].PriceAUD = None
            /\ df[j].Perf = None
            /\ j \notin Range(shown)

====
